---------------------------- MODULE Spec2Model ----------------------------
(***************************************************************************)
(* Model of experiments/veo-app/models/image_models.py: the two retrying   *)
(* remote calls (generate_images, edit_image), the normalisation of their  *)
(* responses into lists of URIs, the single-image path                     *)
(* generate_image_for_vto and recontextualize_product_in_scene.            *)
(***************************************************************************)
EXTENDS Integers, Sequences, FiniteSets, TLC

VARIABLES
    cfg,            \* the Default() configuration of the process
    pc,             \* "idle" | "attempt" | "sleep" | "done"
    fn,             \* the operation the caller invoked
    model,          \* the `model` argument of the invocation
    retry_state,    \* the retry wrapper's state of the current / last retrying call
    outcomes,       \* per-attempt outcomes of the current retrying call
    waits,          \* the sleeps performed by the current retrying call
    now,            \* seconds elapsed since the invocation began
    number_of_images, \* the image count argument of the invocation
    requested,      \* number_of_images of the last remote request (0: none sent)
    remote_calls,   \* remote generation calls issued by the current invocation
    last_remote,    \* how the last remote call of the current invocation ended
    retry_result,   \* what the retrying call handed to its caller
    result,         \* what the invoked operation handed to its caller
    calls,          \* invocations begun so far
    prev            \* the retry state the current retrying call found left behind

vars == << cfg, pc, fn, model, retry_state, outcomes, waits, now,
           number_of_images, requested, remote_calls, last_remote,
           retry_result, result, calls, prev >>

----------------------------------------------------------------------------
(* Bounds of the model *)

MaxCalls == 2
MaxImages == 2

----------------------------------------------------------------------------
(* Python values *)

None == "None"

Truthy(v) == v # None /\ v # ""

Exc(type, msg) == [type |-> type, msg |-> msg]

NoExc == Exc(None, "")

\* BaseException subclasses that are not subclasses of Exception
NonExceptionTypes == {"KeyboardInterrupt", "SystemExit", "GeneratorExit"}

isinstance_Exception(e) == e.type \notin NonExceptionTypes

\* what the remote service call can raise
RemoteErrors ==
    { Exc("ServerError", "503 UNAVAILABLE"),
      Exc("ClientError", "429 RESOURCE_EXHAUSTED"),
      Exc("ConnectionError", "connection reset"),
      Exc("KeyboardInterrupt", "") }

----------------------------------------------------------------------------
(* Responses of the remote service *)

Image(gcs_uri, image_bytes) ==
    [gcs_uri |-> gcs_uri, image_bytes |-> image_bytes, is_none |-> FALSE]

NoImage == [gcs_uri |-> None, image_bytes |-> None, is_none |-> TRUE]

GeneratedImage(image, reason) == [image |-> image, rai_filtered_reason |-> reason]

Uris == {"gs://bucket/a", "gs://bucket/b"}

UriEntries == { GeneratedImage(Image(u, None), None) : u \in Uris }

BytesEntry == GeneratedImage(Image(None, "png"), None)

EmptyBytesEntry == GeneratedImage(Image(None, ""), None)

FailedEntry == GeneratedImage(NoImage, "filtered")

\* entries of a response: with a URI, with inline bytes only, or failed
Entries == UriEntries \cup {BytesEntry, FailedEntry}

\* the single-image request names no output location: its entry carries bytes
VtoEntries == {BytesEntry, EmptyBytesEntry, FailedEntry}

SeqsUpTo(S, n) == UNION { [1..k -> S] : k \in 0..n }

\* generated_images is Optional: is_none stands for an absent list
Response(is_none, generated_images) ==
    [generated_images |-> generated_images, generated_images_is_none |-> is_none]

NoResponse == Response(TRUE, << >>)

\* the responses the service can give to a request for n images
Responses(E, n) ==
    {NoResponse} \cup { Response(FALSE, s) : s \in SeqsUpTo(E, n) }

\* a remote call either raises or returns a response
RemoteOutcomes(E, n) ==
    { [raised |-> TRUE, exc |-> e, resp |-> NoResponse] : e \in RemoteErrors }
    \cup { [raised |-> FALSE, exc |-> NoExc, resp |-> r] : r \in Responses(E, n) }

----------------------------------------------------------------------------
(* ImagenModelSetup.init *)

Config(project_id, location, model_id) ==
    [PROJECT_ID |-> project_id, LOCATION |-> location, MODEL_ID |-> model_id]

\* every identifier set, or one of them absent
Configs ==
    { Config("proj", "us-central1", "imagen"),
      Config(None, "us-central1", "imagen"),
      Config("proj", None, "imagen"),
      Config("proj", "us-central1", None) }

ModelArgs == {None, "imagen-4"}

\* the identifiers after the defaults of the configuration are filled in
init_ids(c, project_id, location, model_id) ==
    << IF Truthy(project_id) THEN project_id ELSE c.PROJECT_ID,
       IF Truthy(location) THEN location ELSE c.LOCATION,
       IF Truthy(model_id) THEN model_id ELSE c.MODEL_ID >>

init_raises(c, model_id) ==
    \E i \in 1..3 : init_ids(c, None, None, model_id)[i] = None

AllParametersError == Exc("ValueError", "All parameters must be set.")

\* cfg.MODEL_IMAGEN4_FAST, a model name the configuration always carries
MODEL_IMAGEN4_FAST == "imagen-4.0-fast-generate"

----------------------------------------------------------------------------
(* Response normalisation *)

\* hasattr(img, "image") and hasattr(img.image, "gcs_uri"): the SDK's entry
\* always has the attribute image, and None has no attribute gcs_uri
has_image_with_gcs_uri(img) == ~img.image.is_none

\* [img.image.gcs_uri for img in generated_images if hasattr(...) and hasattr(...)]
gcs_uris(generated_images) ==
    LET kept == SelectSeq(generated_images, has_image_with_gcs_uri)
    IN  [i \in 1..Len(kept) |-> kept[i].image.gcs_uri]

Returned(uris, bytes) ==
    [exc |-> NoExc, uris |-> uris, bytes |-> bytes, kind |-> "return"]

Raised(e) == [exc |-> e, uris |-> << >>, bytes |-> None, kind |-> "raise"]

NoResult == [exc |-> NoExc, uris |-> << >>, bytes |-> None, kind |-> "none"]

NotIterableError == Exc("TypeError", "'NoneType' object is not iterable")

\* lines 182-187 / 208-213: iterating an absent generated_images raises
uris_of_response(resp) ==
    IF resp.generated_images_is_none
    THEN Raised(NotIterableError)
    ELSE Returned(gcs_uris(resp.generated_images), None)

\* lines 342-365 of edit_image: a non-empty list is filtered, anything else is []
edited_uris(resp) ==
    IF ~resp.generated_images_is_none /\ resp.generated_images # << >>
    THEN gcs_uris(resp.generated_images)
    ELSE << >>

NoDataError == Exc("ValueError", "Image generation failed or returned no data.")

NoAttributeError ==
    Exc("AttributeError", "'NoneType' object has no attribute 'image_bytes'")

\* lines 245-248 of generate_image_for_vto
vto_bytes(resp) ==
    IF ~resp.generated_images_is_none /\ resp.generated_images # << >>
    THEN LET first == resp.generated_images[1]
         IN  IF first.image.is_none
             THEN Raised(NoAttributeError)
             ELSE IF Truthy(first.image.image_bytes)
                  THEN Returned(<< >>, first.image.image_bytes)
                  ELSE Raised(NoDataError)
    ELSE Raised(NoDataError)

----------------------------------------------------------------------------
(* The retry wrapper: wait_exponential, stop_after_attempt,                *)
(* retry_if_exception_type(Exception), reraise=True                        *)

WaitMultiplier == 1
WaitMin == 1
WaitMax == 10
MaxAttemptNumber == 3

Min2(a, b) == IF a < b THEN a ELSE b
Max2(a, b) == IF a > b THEN a ELSE b

\* variant: the exponent is the attempt number itself, so the waits are 2s, 4s
wait_exponential_from_2(attempt_number) ==
    Max2(Max2(0, WaitMin),
         Min2(WaitMultiplier * 2 ^ attempt_number, WaitMax))

\* seconds slept after the attempt numbered attempt_number failed
wait_exponential(attempt_number) ==
    Max2(Max2(0, WaitMin),
         Min2(WaitMultiplier * 2 ^ (attempt_number - 1), WaitMax))

\* variant: the budget counts retries, not attempts
stop_after_retries(attempt_number) == attempt_number >= MaxAttemptNumber + 1

stop_after_attempt(attempt_number) == attempt_number >= MaxAttemptNumber

\* variant: only transient remote failures are retried
retry_if_transient(e) == e.type \in {"ServerError", "ConnectionError"}

retry_if_exception_type(e) == isinstance_Exception(e)

\* variant: the wrapper's own error is raised on exhaustion
reraise_off == FALSE

reraise == TRUE

RetryError == Exc("RetryError", "RetryError[<Future state=finished raised>]")

\* variant: one retry state shared by all calls and never reset
RetryCallState_shared(f) ==
    IF retry_state.attempt_number = 0
    THEN [fn |-> f, attempt_number |-> 1, idle_for |-> 0]
    ELSE [retry_state EXCEPT !.fn = f]

\* the state a retrying call begins with
RetryCallState(f) == [fn |-> f, attempt_number |-> 1, idle_for |-> 0]

NoRetryState == [fn |-> None, attempt_number |-> 0, idle_for |-> 0]

\* "return": hand the value back, "raise": hand the exception on, "sleep": retry
retry_decision(rs, o) ==
    IF o.kind = "return" THEN "return"
    ELSE IF ~retry_if_exception_type(o.exc) THEN "raise"
    ELSE IF stop_after_attempt(rs.attempt_number) THEN "raise"
    ELSE "sleep"

\* the exception the wrapper raises when it gives up after outcome o
raised_by_wrapper(o) ==
    IF retry_if_exception_type(o.exc) /\ ~reraise THEN RetryError ELSE o.exc

----------------------------------------------------------------------------
(* One attempt of the decorated functions *)

Outcome(kind, e, resp, uris, at) ==
    [exc |-> e, resp |-> resp, uris |-> uris, kind |-> kind, at |-> at]

\* the client is built first; without it no remote call is made
calls_remote(c, m) == ~init_raises(c, m)

\* lines 94-159: one execution of the body of generate_images
generate_images_body(c, m, remote, t) ==
    IF init_raises(c, m)
    THEN Outcome("raise", AllParametersError, NoResponse, << >>, t)
    ELSE IF remote.raised
         THEN Outcome("raise", remote.exc, NoResponse, << >>, t)
         ELSE Outcome("return", NoExc, remote.resp, << >>, t)

\* lines 308-369: one execution of the body of edit_image
edit_image_body(c, m, remote, t) ==
    IF init_raises(c, m)
    THEN Outcome("raise", AllParametersError, NoResponse, << >>, t)
    ELSE IF remote.raised
         THEN Outcome("raise", remote.exc, NoResponse, << >>, t)
         ELSE Outcome("return", NoExc, remote.resp, edited_uris(remote.resp), t)


----------------------------------------------------------------------------
(* What the retrying call hands to its caller *)

RetryReturned(resp, uris) ==
    [exc |-> NoExc, resp |-> resp, uris |-> uris, kind |-> "return"]

RetryRaised(e) == [exc |-> e, resp |-> NoResponse, uris |-> << >>, kind |-> "raise"]

NoRetryResult == [exc |-> NoExc, resp |-> NoResponse, uris |-> << >>, kind |-> "none"]

\* variant: the wrapper drops the value the function returned
retry_outcome_drops_value(o) ==
    IF o.kind = "return"
    THEN RetryReturned(NoResponse, << >>)
    ELSE RetryRaised(raised_by_wrapper(o))

\* the wrapper's result once it stops after outcome o
retry_outcome(o) ==
    IF o.kind = "return"
    THEN RetryReturned(o.resp, o.uris)
    ELSE RetryRaised(raised_by_wrapper(o))

\* lines 175-187 / 201-213: the callers of generate_images normalise its response
generate_images_caller(rr) ==
    IF rr.kind = "raise" THEN Raised(rr.exc) ELSE uris_of_response(rr.resp)

\* edit_image is itself the decorated function
edit_image_caller(rr) ==
    IF rr.kind = "raise" THEN Raised(rr.exc) ELSE Returned(rr.uris, None)

----------------------------------------------------------------------------
(* recontextualize_product_in_scene *)

Payloads == {None, "", "aGVsbG8="}

Predictions(n) == SeqsUpTo(Payloads, n)

PredictOutcomes(n) ==
    { [raised |-> TRUE, exc |-> e, predictions |-> << >>] : e \in RemoteErrors }
    \cup { [raised |-> FALSE, exc |-> NoExc, predictions |-> p] : p \in Predictions(n) }

\* the location the storage collaborator gives the k-th upload of an invocation
store_to_gcs(k) ==
    CASE k = 1 -> "gs://bucket/recontext_results/1.png"
      [] k = 2 -> "gs://bucket/recontext_results/2.png"
      [] k = 3 -> "gs://bucket/recontext_results/3.png"
      [] OTHER -> "gs://bucket/recontext_results/n.png"

\* lines 275-290: every prediction with a payload is uploaded, in order
recontext_uris(predictions) ==
    LET kept == SelectSeq(predictions, Truthy)
    IN  [i \in 1..Len(kept) |-> store_to_gcs(i)]

----------------------------------------------------------------------------
(* State machine *)

RetryingFns == {"generate_images_from_prompt", "generate_virtual_models", "edit_image"}

NoPrev == [fn |-> None, attempt_number |-> 0]

NoRemote == [raised |-> FALSE, exc |-> NoExc, resp |-> NoResponse, called |-> FALSE]

Remote(raised, e, resp) ==
    [raised |-> raised, exc |-> e, resp |-> resp, called |-> TRUE]

Init ==
    /\ cfg \in Configs
    /\ pc = "idle"
    /\ fn = None
    /\ model = None
    /\ retry_state = NoRetryState
    /\ outcomes = << >>
    /\ waits = << >>
    /\ now = 0
    /\ number_of_images = 0
    /\ requested = 0
    /\ remote_calls = 0
    /\ last_remote = NoRemote
    /\ retry_result = NoRetryResult
    /\ result = NoResult
    /\ calls = 0
    /\ prev = NoPrev

\* the caller may invoke an operation when none is in progress
CanInvoke == pc \in {"idle", "done"} /\ calls < MaxCalls

\* entering a decorated function: the wrapper begins with a fresh state
BeginRetrying(f, wrapped, m, n) ==
    /\ CanInvoke
    /\ calls' = calls + 1
    /\ prev' = [fn |-> retry_state.fn, attempt_number |-> retry_state.attempt_number]
    /\ fn' = f
    /\ model' = m
    /\ number_of_images' = n
    /\ retry_state' = RetryCallState(wrapped)
    /\ pc' = "attempt"
    /\ outcomes' = << >>
    /\ waits' = << >>
    /\ now' = 0
    /\ requested' = 0
    /\ remote_calls' = 0
    /\ last_remote' = NoRemote
    /\ retry_result' = NoRetryResult
    /\ result' = NoResult
    /\ UNCHANGED cfg

call_generate_images_from_prompt ==
    \E m \in ModelArgs, n \in 1..MaxImages :
        BeginRetrying("generate_images_from_prompt", "generate_images", m, n)

call_generate_virtual_models ==
    \E n \in 1..MaxImages :
        BeginRetrying("generate_virtual_models", "generate_images",
                      MODEL_IMAGEN4_FAST, n)

call_edit_image ==
    \E m \in ModelArgs, n \in 1..MaxImages :
        BeginRetrying("edit_image", "edit_image", m, n)

\* the wrapper runs the body once and decides what follows
Attempt(remote, o, caller_result) ==
    LET dec == retry_decision(retry_state, o)
        sent == calls_remote(cfg, model)
    IN  /\ outcomes' = Append(outcomes, o)
        /\ remote_calls' = IF sent THEN remote_calls + 1 ELSE remote_calls
        /\ requested' = IF sent THEN number_of_images ELSE requested
        /\ last_remote' = IF sent
                          THEN Remote(remote.raised, remote.exc, remote.resp)
                          ELSE last_remote
        /\ IF dec = "sleep"
           THEN /\ pc' = "sleep"
                /\ UNCHANGED << retry_result, result >>
           ELSE /\ pc' = "done"
                /\ retry_result' = retry_outcome(o)
                /\ result' = caller_result
        /\ UNCHANGED << cfg, fn, model, retry_state, waits, now,
                        number_of_images, calls, prev >>

attempt_generate_images ==
    /\ pc = "attempt"
    /\ retry_state.fn = "generate_images"
    /\ \E remote \in RemoteOutcomes(Entries, number_of_images) :
          LET o == generate_images_body(cfg, model, remote, now)
          IN  Attempt(remote, o, generate_images_caller(retry_outcome(o)))

attempt_edit_image ==
    /\ pc = "attempt"
    /\ retry_state.fn = "edit_image"
    /\ \E remote \in RemoteOutcomes(Entries, number_of_images) :
          LET o == edit_image_body(cfg, model, remote, now)
          IN  Attempt(remote, o, edit_image_caller(retry_outcome(o)))

\* the wrapper sleeps, then prepares the next attempt
sleep ==
    /\ pc = "sleep"
    /\ LET w == wait_exponential(retry_state.attempt_number)
       IN  /\ waits' = Append(waits, w)
           /\ now' = now + w
           /\ retry_state' = [retry_state EXCEPT
                                 !.attempt_number = @ + 1, !.idle_for = @ + w]
    /\ pc' = "attempt"
    /\ UNCHANGED << cfg, fn, model, outcomes, number_of_images, requested,
                    remote_calls, last_remote, retry_result, result, calls,
                    prev >>

\* an operation without the retry wrapper runs to its end in one step
RunOnce(f, n, remote, res) ==
    /\ CanInvoke
    /\ calls' = calls + 1
    /\ fn' = f
    /\ model' = None
    /\ number_of_images' = n
    /\ pc' = "done"
    /\ outcomes' = << >>
    /\ waits' = << >>
    /\ now' = 0
    /\ requested' = IF remote.called THEN n ELSE 0
    /\ remote_calls' = IF remote.called THEN 1 ELSE 0
    /\ last_remote' = remote
    /\ retry_result' = NoRetryResult
    /\ result' = res
    /\ UNCHANGED << cfg, retry_state, prev >>

\* variant: every failure of the remote call is reported as missing data
vto_result_swallows(remote) ==
    IF remote.raised THEN Raised(NoDataError) ELSE vto_bytes(remote.resp)

\* lines 237-248: an exception of the remote call is not caught
vto_result(remote) ==
    IF remote.raised THEN Raised(remote.exc) ELSE vto_bytes(remote.resp)

\* lines 235-248: the client is built, then one image is requested
generate_image_for_vto ==
    \E remote \in RemoteOutcomes(VtoEntries, 1) :
        IF init_raises(cfg, MODEL_IMAGEN4_FAST)
        THEN RunOnce("generate_image_for_vto", 1, NoRemote,
                     Raised(AllParametersError))
        ELSE RunOnce("generate_image_for_vto", 1,
                     Remote(remote.raised, remote.exc, remote.resp),
                     vto_result(remote))

\* lines 271-290: an exception of the remote call is not caught
recontext_result(remote) ==
    IF remote.raised
    THEN Raised(remote.exc)
    ELSE Returned(recontext_uris(remote.predictions), None)

\* lines 251-290
recontextualize_product_in_scene ==
    \E n \in 1..MaxImages :
        \E remote \in PredictOutcomes(n) :
            RunOnce("recontextualize_product_in_scene", n,
                    Remote(remote.raised, remote.exc, NoResponse),
                    recontext_result(remote))

Next ==
    \/ call_generate_images_from_prompt
    \/ call_generate_virtual_models
    \/ call_edit_image
    \/ attempt_generate_images
    \/ attempt_edit_image
    \/ sleep
    \/ generate_image_for_vto
    \/ recontextualize_product_in_scene

Spec == Init /\ [][Next]_vars

----------------------------------------------------------------------------
(* Properties *)

Retrying == fn \in RetryingFns

Done == pc = "done"

LastOutcome == outcomes[Len(outcomes)]

AllRaised == \A k \in 1..Len(outcomes) : outcomes[k].kind = "raise"

\* C1: a retrying call makes at most 3 attempts, starts attempt k+1 only
\* after attempt k raised, and the first attempt that returns ends the call:
\* no remote call follows it.
C1_AtMostThreeAttempts ==
    Retrying =>
        /\ Len(outcomes) <= 3
        /\ retry_state.attempt_number <= 3
        /\ remote_calls <= Len(outcomes)
        /\ \A k \in 1..(Len(outcomes) - 1) : outcomes[k].kind = "raise"
        /\ (outcomes # << >> /\ LastOutcome.kind = "return") => Done
        /\ retry_state.attempt_number =
               IF pc = "attempt" THEN Len(outcomes) + 1 ELSE Len(outcomes)

C1_Witness ==
    /\ Retrying /\ Done
    /\ Len(outcomes) = 3 /\ remote_calls = 3
    /\ LastOutcome.kind = "raise"

\* C2: when all 3 attempts raise, the caller receives the exception of the
\* last attempt, type and message unchanged, not a retry-library error.
C2_LastExceptionPropagates ==
    (Retrying /\ Done /\ Len(outcomes) = 3 /\ AllRaised) =>
        /\ retry_result = RetryRaised(outcomes[3].exc)
        /\ result = Raised(outcomes[3].exc)

C2_Witness ==
    /\ Retrying /\ Done /\ Len(outcomes) = 3 /\ AllRaised
    /\ Cardinality({ outcomes[k].exc : k \in 1..3 }) = 3
    /\ result = Raised(outcomes[3].exc)

\* C3: when an attempt returns, the retrying call returns the value of that
\* attempt, which is the first that returned, and raises nothing; the
\* exceptions of the earlier attempts are not visible.
C3_FirstSuccessReturned ==
    (Retrying /\ Done /\ LastOutcome.kind = "return") =>
        /\ \A k \in 1..(Len(outcomes) - 1) : outcomes[k].kind = "raise"
        /\ retry_result = RetryReturned(LastOutcome.resp, LastOutcome.uris)
        /\ fn = "edit_image" => result = Returned(LastOutcome.uris, None)
        /\ result.kind = "raise" => result.exc \notin { outcomes[k].exc :
                                         k \in 1..(Len(outcomes) - 1) }

C3_Witness ==
    /\ fn = "edit_image" /\ Done /\ Len(outcomes) = 3
    /\ outcomes[1].kind = "raise" /\ outcomes[2].kind = "raise"
    /\ outcomes[3].kind = "return"
    /\ result = Returned(<< "gs://bucket/b", "gs://bucket/a" >>, None)

----------------------------------------------------------------------------
(* Normalisation properties *)

\* an entry is successful when it carries a URI or raw bytes
Successful(e) ==
    ~e.image.is_none /\ (Truthy(e.image.gcs_uri) \/ Truthy(e.image.image_bytes))

Failed(e) == e.image.is_none /\ Truthy(e.rai_filtered_reason)

\* the response the returning attempt received
Received == LastOutcome.resp

Normalised == Retrying /\ Done /\ LastOutcome.kind = "return"

\* C4: for a response of N successful and M failed entries the normalisation
\* returns exactly N elements, each the URI of a successful entry, in the
\* order of the response, none standing for a failed entry.
C4_Claim ==
    (Normalised /\ ~Received.generated_images_is_none) =>
        LET ok == SelectSeq(Received.generated_images, Successful)
        IN  /\ result.kind = "return"
            /\ Len(result.uris) = Len(ok)
            /\ \A i \in 1..Len(result.uris) :
                   /\ result.uris[i] \in Uris
                   /\ result.uris[i] = ok[i].image.gcs_uri

\* C4 restricted to responses whose successful entries all carry a URI
C4_UriEntriesOnly ==
    (/\ Normalised /\ ~Received.generated_images_is_none
     /\ \A i \in 1..Len(Received.generated_images) :
            Received.generated_images[i] \in UriEntries \cup {FailedEntry}) =>
        LET ok == SelectSeq(Received.generated_images, Successful)
        IN  /\ result.kind = "return"
            /\ Len(result.uris) = Len(ok)
            /\ \A i \in 1..Len(result.uris) :
                   /\ result.uris[i] \in Uris
                   /\ result.uris[i] = ok[i].image.gcs_uri

\* C5: a response with no entries (empty or absent generated_images) or with
\* failed entries only yields an empty list and no exception.
C5_Claim ==
    (/\ Normalised
     /\ \/ Received.generated_images_is_none
        \/ \A i \in 1..Len(Received.generated_images) :
               Failed(Received.generated_images[i])) =>
        result = Returned(<< >>, None)

\* C5 for edit_image alone, and for the callers of generate_images when the
\* list is present
C5_ListPresentOrEdit ==
    (/\ Normalised
     /\ fn = "edit_image" \/ ~Received.generated_images_is_none
     /\ \/ Received.generated_images_is_none
        \/ \A i \in 1..Len(Received.generated_images) :
               Failed(Received.generated_images[i])) =>
        result = Returned(<< >>, None)

\* the first entry of the response carries non-empty bytes
FirstHasBytes(resp) ==
    /\ ~resp.generated_images_is_none
    /\ resp.generated_images # << >>
    /\ ~resp.generated_images[1].image.is_none
    /\ Truthy(resp.generated_images[1].image.image_bytes)

\* C6: generate_image_for_vto requests exactly one image; when the response
\* holds no entry with bytes it raises ValueError("Image generation failed or
\* returned no data.") and no other kind of exception; otherwise it returns
\* the bytes of the first entry.
C6_Claim ==
    (Done /\ fn = "generate_image_for_vto" /\ last_remote.called
     /\ ~last_remote.raised) =>
        /\ requested = 1
        /\ IF FirstHasBytes(last_remote.resp)
           THEN result =
                  Returned(<< >>, last_remote.resp.generated_images[1].image.image_bytes)
           ELSE result = Raised(NoDataError)

\* C6 without the case of a first entry that carries no image
C6_WithImage ==
    (/\ Done /\ fn = "generate_image_for_vto" /\ last_remote.called
     /\ ~last_remote.raised
     /\ ~(/\ ~last_remote.resp.generated_images_is_none
          /\ last_remote.resp.generated_images # << >>
          /\ last_remote.resp.generated_images[1].image.is_none)) =>
        /\ requested = 1
        /\ IF FirstHasBytes(last_remote.resp)
           THEN result =
                  Returned(<< >>, last_remote.resp.generated_images[1].image.image_bytes)
           ELSE result = Raised(NoDataError) /\ result.exc.msg # ""

----------------------------------------------------------------------------
(* Retry classification, backoff, independence *)

\* the wrapper went on after attempt k: it sleeps, or a later attempt has begun
Retried(k) == k < Len(outcomes) \/ pc \in {"sleep", "attempt"}

\* the client factory raises before any remote call
InitFails == init_raises(cfg, model)

InitFailureRetried ==
    (Retrying /\ InitFails) =>
        /\ remote_calls = 0
        /\ \A k \in 1..Len(outcomes) :
               outcomes[k].kind = "raise" /\ outcomes[k].exc = AllParametersError
        /\ Done => /\ Len(outcomes) = 3
                   /\ waits = << 1, 2 >>
                   /\ retry_result = RetryRaised(AllParametersError)
                   /\ result = Raised(AllParametersError)

Backoff(k) == IF 2 ^ (k - 1) < 10 THEN 2 ^ (k - 1) ELSE 10

\* C8: the wait after failed attempt k (k = 1, 2) is min(10, 2^(k-1)) seconds,
\* 1s then 2s, each within [1s, 10s]; attempt k+1 starts no earlier than that
\* wait after attempt k; no wait follows the third failed attempt.
C8_Backoff ==
    Retrying =>
        /\ Len(waits) <= 2
        /\ \A k \in 1..Len(waits) :
               /\ waits[k] = Backoff(k)
               /\ waits[k] >= 1 /\ waits[k] <= 10
               /\ outcomes[k].kind = "raise"
        /\ Len(waits) >= 1 => waits[1] = 1
        /\ Len(waits) >= 2 => waits[2] = 2
        /\ \A k \in 2..Len(outcomes) :
               outcomes[k].at >= outcomes[k - 1].at + waits[k - 1]
        /\ pc = "attempt" =>
               /\ Len(waits) = Len(outcomes)
               /\ outcomes # << >> => now >= LastOutcome.at + waits[Len(waits)]
        /\ pc = "sleep" => Len(waits) = Len(outcomes) - 1
        /\ Done => /\ Len(waits) = Len(outcomes) - 1
                   /\ now = LastOutcome.at
        /\ retry_state.idle_for = IF Len(waits) = 0 THEN 0
                                  ELSE IF Len(waits) = 1 THEN 1 ELSE 3

C8_Witness ==
    /\ Retrying /\ Done /\ Len(outcomes) = 3 /\ AllRaised
    /\ waits = << 1, 2 >>
    /\ outcomes[2].at = 1 /\ outcomes[3].at = 3 /\ now = 3

NonRetryingFns == {"generate_image_for_vto", "recontextualize_product_in_scene"}

NoRetry ==
    /\ outcomes = << >> /\ waits = << >> /\ now = 0
    /\ retry_result = NoRetryResult
    /\ (last_remote.called /\ last_remote.raised) =>
           result = Raised(last_remote.exc)

\* C9 as stated: generate_image_for_vto and recontextualize_product_in_scene
\* issue exactly one remote call per invocation, and its exception reaches the
\* caller at once, with no second attempt and no backoff wait.
C9_Claim ==
    (Done /\ fn \in NonRetryingFns) => (remote_calls = 1 /\ NoRetry)

\* C9 amended: each invocation issues at most one remote call: exactly one
\* when the client is built, none when ImagenModelSetup.init raises its
\* ValueError first; an exception of the call or of init reaches the caller
\* at once, with no second attempt and no backoff wait.
C9_AtMostOneCall ==
    (Done /\ fn \in NonRetryingFns) =>
        /\ remote_calls <= 1
        /\ remote_calls = 1 <=>
               (fn = "recontextualize_product_in_scene"
                \/ ~init_raises(cfg, MODEL_IMAGEN4_FAST))
        /\ remote_calls = 0 => result = Raised(AllParametersError)
        /\ NoRetry

C9_Witness ==
    /\ Done /\ fn = "generate_image_for_vto"
    /\ remote_calls = 1 /\ last_remote.raised
    /\ result = Raised(Exc("ServerError", "503 UNAVAILABLE"))
    /\ waits = << >>

\* the function the decorator of the invoked operation wraps
Wrapped ==
    IF fn = "edit_image" THEN "edit_image" ELSE "generate_images"

\* C10: whatever invocations came before, a retrying call starts at attempt 1
\* with the budget of 3 attempts and a first backoff of 1s, its outcome is
\* decided by its own attempts alone, and the attempts of one function are
\* not charged to the other.
C10_FreshRetryState ==
    Retrying =>
        /\ retry_state.fn = Wrapped
        /\ outcomes = << >> =>
               /\ pc = "attempt"
               /\ retry_state = [fn |-> Wrapped, attempt_number |-> 1, idle_for |-> 0]
               /\ waits = << >>
        /\ retry_state.attempt_number =
               IF pc = "attempt" THEN Len(outcomes) + 1 ELSE Len(outcomes)
        /\ Len(waits) >= 1 => waits[1] = 1
        /\ Done =>
               /\ retry_result =
                      IF LastOutcome.kind = "return"
                      THEN RetryReturned(LastOutcome.resp, LastOutcome.uris)
                      ELSE RetryRaised(LastOutcome.exc)
               /\ (\A k \in 1..Len(outcomes) :
                       /\ outcomes[k].kind = "raise"
                       /\ isinstance_Exception(outcomes[k].exc))
                      => Len(outcomes) = 3

C10_Witness ==
    /\ calls = 2 /\ prev = [fn |-> "edit_image", attempt_number |-> 3]
    /\ fn = "generate_images_from_prompt" /\ Done
    /\ Len(outcomes) = 3 /\ AllRaised /\ waits = << 1, 2 >>

============================================================================
